---- MODULE Spec2Model ----
(***************************************************************************)
(* Booking system: bookTicket / cancelBooking (bookingController) and      *)
(* updateEvent / deleteEvent (eventController) over two independent stores.*)
(*                                                                         *)
(*   MongoDB  - one Event document per event (totalTickets,                *)
(*              availableTickets, date).  Handlers that pass                *)
(*              {session: mongoSession} write inside a multi-document      *)
(*              transaction: the write is pending (invisible to other      *)
(*              readers) and holds the document until the transaction      *)
(*              commits or aborts.  A second transaction writing a held    *)
(*              document gets a WriteConflict error; a write outside any   *)
(*              transaction waits until the holder ends.                   *)
(*   MySQL    - one row per booking; Sequelize transactions: inserts and   *)
(*              updates are pending until commit.                          *)
(*                                                                         *)
(* Every await of a handler is one step of the model, so that requests     *)
(* interleave exactly where the Node.js event loop lets them interleave.   *)
(***************************************************************************)
EXTENDS Integers, FiniteSets, Sequences, TLC

(***************************************************************************)
(* Bounds of the model                                                     *)
(***************************************************************************)
MaxReq == 2
NumEvents == 1
MaxTotal == 2
MaxNow == 2
MaxFaults == 1
MaxRequestId == 1

(***************************************************************************)
(* Program constants                                                       *)
(***************************************************************************)
MinTicketCount == 1
MaxTicketCount == 10
MinTotalTickets == 1

Req == 1..MaxReq
EventIds == 1..NumEvents
InvalidId == 0
Dates == 0..MaxNow
Users == {1, 2}
Admins == {2}
RequestIds == 1..MaxRequestId
Absent == 0
Undefined == -1

VARIABLES
  events,     \* MongoDB events collection (committed documents)
  bookings,   \* MySQL bookings table (committed rows), id -> row
  nextId,     \* MySQL AUTO_INCREMENT of bookings.id
  syslog,     \* MongoDB systemlogs collection written by Logger
  now,        \* wall clock read by new Date()
  faults,     \* number of store failures injected so far
  pc,         \* position of each request in its handler
  kind,       \* which handler serves the request
  body,       \* req.body / req.params / req.user of the request
  atStart,    \* store values observed when the request arrived
  mtx,        \* driver-side state of the request's mongoSession transaction
  mwrite,     \* pending (uncommitted) write of the request's MongoDB transaction
  stx,        \* state of the request's Sequelize transaction
  swrite,     \* pending (uncommitted) write of the request's MySQL transaction
  event,      \* local `event` / `existingEvent` document of the handler
  booking,    \* local `booking` instance of the handler
  result      \* response sent for the request

vars == <<events, bookings, nextId, syslog, now, faults, pc, kind, body,
          atStart, mtx, mwrite, stx, swrite, event, booking, result>>

stores == <<events, bookings, nextId, syslog>>
locals == <<mtx, mwrite, stx, swrite, event, booking>>
inputs == <<kind, body, atStart>>

(***************************************************************************)
(* Documents, rows and request records                                     *)
(***************************************************************************)
NoDoc == [exists |-> FALSE, totalTickets |-> 0, availableTickets |-> 0, date |-> 0]
NoRow == [id |-> Absent, userId |-> 0, eventId |-> 0, ticketCount |-> 0, status |-> "none"]
NoBody == [eventId |-> 0, ticketCount |-> 0, userId |-> 0, requestId |-> 0,
           bookingId |-> 0, totalTickets |-> 0, date |-> 0]
NoWrite == [eventId |-> 0, inc |-> 0]
NoPending == [op |-> "none", id |-> Absent]
NoObs == [availableTickets |-> 0, past |-> FALSE, status |-> "none"]

Min(a, b) == IF a < b THEN a ELSE b

TicketCounts == MinTicketCount..Min(MaxTicketCount, MaxTotal)
Totals == MinTotalTickets..MaxTotal

\* Event.findById(id) outside any session: the committed document or null
findById(id) == IF id \in EventIds /\ events[id].exists THEN events[id] ELSE NoDoc

\* Booking.findOne({where: {id}}): the committed row or null
findOne(id) == IF id \in DOMAIN bookings THEN bookings[id] ELSE NoRow

\* (variant: transactions do not hold the documents they wrote)
LockedNever(id) == FALSE

\* the document is held by a transaction that wrote it and has not ended
Locked(id) == \E r \in Req : mwrite[r].eventId = id

\* new Date(event.date) < new Date()
isPast(doc) == doc.date < now

\* sum of f over a finite set
RECURSIVE Sum(_, _)
Sum(S, f) == IF S = {} THEN 0
             ELSE LET x == CHOOSE y \in S : TRUE IN f[x] + Sum(S \ {x}, f)

(***************************************************************************)
(* Initial states: the events exist (createEvent sets availableTickets =   *)
(* totalTickets), the clock is at 1, and the ledger is empty or holds one  *)
(* booking made earlier (its tickets taken out of availableTickets while   *)
(* it is confirmed).                                                       *)
(***************************************************************************)
InitRows == {NoRow} \cup
            { [id |-> 1, userId |-> u, eventId |-> e, ticketCount |-> n, status |-> s] :
                u \in Users, e \in EventIds, n \in TicketCounts, s \in {"confirmed", "cancelled"} }

HeldBy(row, e) == IF row.eventId = e /\ row.status = "confirmed" THEN row.ticketCount ELSE 0

InitStores ==
  /\ now = 1
  /\ syslog = {}
  /\ \E row \in InitRows :
       /\ bookings = IF row = NoRow THEN <<>> ELSE <<row>>
       /\ nextId = IF row = NoRow THEN 1 ELSE 2
       /\ \E t \in [EventIds -> Totals], d \in [EventIds -> {0, 1}] :
            /\ \A e \in EventIds : HeldBy(row, e) <= t[e]
            /\ events = [e \in EventIds |->
                           [exists |-> TRUE, totalTickets |-> t[e],
                            availableTickets |-> t[e] - HeldBy(row, e), date |-> d[e]]]

InitRequests ==
  /\ faults = 0
  /\ pc = [r \in Req |-> "idle"]
  /\ kind = [r \in Req |-> "none"]
  /\ body = [r \in Req |-> NoBody]
  /\ atStart = [r \in Req |-> NoObs]
  /\ mtx = [r \in Req |-> "none"]
  /\ mwrite = [r \in Req |-> NoWrite]
  /\ stx = [r \in Req |-> "none"]
  /\ swrite = [r \in Req |-> NoPending]
  /\ event = [r \in Req |-> NoDoc]
  /\ booking = [r \in Req |-> NoRow]
  /\ result = [r \in Req |-> "none"]

Init == InitStores /\ InitRequests

(***************************************************************************)
(* Helpers shared by the handlers                                          *)
(***************************************************************************)
\* requests arrive in slot order; a slot serves one request
Arrives(r) == pc[r] = "idle" /\ \A q \in Req : q < r => pc[q] # "idle"

\* what the stores hold when the request arrives
Observe(eventId, bookingId) ==
  [availableTickets |-> findById(eventId).availableTickets,
   past |-> isPast(findById(eventId)),
   status |-> findOne(bookingId).status]

\* a store call may fail (connection loss, timeout), at most MaxFaults times
CanFail == faults < MaxFaults

\* Logger.log(level, action, details, req): SystemLog.create(logEntry) inside
\* try/catch.  The collection after the call; when the create fails (ok is
\* FALSE) the error goes to console.error and nothing is stored.
log(ok, level, action, r) ==
  IF ok THEN syslog \cup {[level |-> level, action |-> action, req |-> r]} ELSE syslog

\* the store failures a step takes: one for each failed call
Failures(calls) == Cardinality({i \in DOMAIN calls : ~calls[i]})

\* mongoSession.endSession() in `finally`: a transaction still in progress
\* on the driver side is aborted, its pending write discarded
endSession(r) ==
  /\ mtx' = [mtx EXCEPT ![r] = IF @ = "active" THEN "aborted" ELSE @]
  /\ mwrite' = [mwrite EXCEPT ![r] = NoWrite]

\* (variant: the filter is {_id, availableTickets: {$gt: n}})
MatchesStrict(doc, n) == doc.exists /\ doc.availableTickets > n

\* (variant: the filter is {_id} alone)
MatchesIdOnly(doc, n) == doc.exists

\* the filter of the conditional decrement: {_id, availableTickets: {$gte: n}}
Matches(doc, n) == doc.exists /\ doc.availableTickets >= n

(***************************************************************************)
(* bookTicket                                                              *)
(***************************************************************************)
\* lines 17-31: read the request, validate the id, open both transactions
bookTicket_begin(r) ==
  /\ Arrives(r)
  /\ \E e \in EventIds \cup {InvalidId}, n \in TicketCounts, u \in Users, q \in RequestIds :
       /\ kind' = [kind EXCEPT ![r] = "bookTicket"]
       /\ body' = [body EXCEPT ![r] = [NoBody EXCEPT !.eventId = e, !.ticketCount = n,
                                                      !.userId = u, !.requestId = q]]
       /\ atStart' = [atStart EXCEPT ![r] = Observe(e, Absent)]
       /\ IF e = InvalidId
            THEN /\ pc' = [pc EXCEPT ![r] = "done"]
                 /\ result' = [result EXCEPT ![r] = "invalid_id"]
                 /\ UNCHANGED <<mtx, stx>>
            ELSE /\ pc' = [pc EXCEPT ![r] = "findOneAndUpdate"]
                 /\ mtx' = [mtx EXCEPT ![r] = "active"]
                 /\ stx' = [stx EXCEPT ![r] = "open"]
                 /\ UNCHANGED result
  /\ UNCHANGED <<stores, now, faults, mwrite, swrite, event, booking>>

\* (variant: {new: false}, the document as it was before the update)
decrementedOld(doc, n) == doc

\* the document findOneAndUpdate returns with {new: true}
decremented(doc, n) == [doc EXCEPT !.availableTickets = @ - n]

\* lines 35-48: Event.findOneAndUpdate with the session
bookTicket_findOneAndUpdate(r) ==
  /\ pc[r] = "findOneAndUpdate" /\ kind[r] = "bookTicket"
  /\ LET e == body[r].eventId
         n == body[r].ticketCount
         doc == findById(e)
     IN \/ /\ IF ~Matches(doc, n)
                THEN \* null: no such event, or not enough tickets
                     /\ pc' = [pc EXCEPT ![r] = "findById"]
                     /\ UNCHANGED <<mwrite, event>>
                ELSE IF Locked(e)
                THEN \* WriteConflict: another transaction holds the document
                     /\ pc' = [pc EXCEPT ![r] = "catch"]
                     /\ UNCHANGED <<mwrite, event>>
                ELSE /\ mwrite' = [mwrite EXCEPT ![r] = [eventId |-> e, inc |-> 0 - n]]
                     /\ event' = [event EXCEPT ![r] = decremented(doc, n)]
                     /\ pc' = [pc EXCEPT ![r] = "dateCheck"]
           /\ UNCHANGED faults
        \/ \* the store call fails
           /\ CanFail
           /\ faults' = faults + 1
           /\ pc' = [pc EXCEPT ![r] = "catch"]
           /\ UNCHANGED <<mwrite, event>>
  /\ UNCHANGED <<stores, now, inputs, mtx, stx, swrite, booking, result>>

\* lines 51-69: the update returned null
bookTicket_findById(r) ==
  /\ pc[r] = "findById" /\ kind[r] = "bookTicket"
  /\ LET existingEvent == findById(body[r].eventId)
     IN /\ event' = [event EXCEPT ![r] = existingEvent]
        /\ result' = [result EXCEPT ![r] =
                        IF existingEvent.exists THEN "insufficient" ELSE "event_not_found"]
        /\ IF existingEvent.exists
             THEN \E ok \in BOOLEAN :
                    /\ ok \/ CanFail
                    /\ faults' = faults + Failures(<<ok>>)
                    /\ syslog' = log(ok, "warning", "Booking failed - insufficient tickets", r)
             ELSE UNCHANGED <<syslog, faults>>
  /\ pc' = [pc EXCEPT ![r] = "done"]
  /\ endSession(r)
  /\ UNCHANGED <<events, bookings, nextId, now, inputs, stx, swrite, booking>>

\* line 72: if (new Date(event.date) < new Date())
bookTicket_dateCheck(r) ==
  /\ pc[r] = "dateCheck" /\ kind[r] = "bookTicket"
  /\ pc' = [pc EXCEPT ![r] = IF isPast(event[r]) THEN "restore" ELSE "create"]
  /\ UNCHANGED <<stores, now, faults, inputs, locals, result>>

\* lines 73-78: Event.findByIdAndUpdate without the session.  The write is
\* outside the transaction, so it waits while a transaction holds the
\* document (the request's own transaction included).
bookTicket_restore(r) ==
  /\ pc[r] = "restore" /\ kind[r] = "bookTicket"
  /\ LET e == body[r].eventId
     IN /\ ~Locked(e)
        /\ events' = IF findById(e).exists
                       THEN [events EXCEPT ![e].availableTickets = @ + body[r].ticketCount]
                       ELSE events
  /\ result' = [result EXCEPT ![r] = "past_event"]
  /\ pc' = [pc EXCEPT ![r] = "done"]
  /\ endSession(r)
  /\ UNCHANGED <<bookings, nextId, syslog, now, faults, inputs, stx, swrite, event, booking>>

\* the server aborts a transaction that outlives transactionLifetimeLimitSeconds;
\* the driver does not learn of it.  Handlers finish within the limit unless
\* they wait, and the only wait of a handler on a held document is the restore.
transactionExpires(r) ==
  /\ pc[r] = "restore"
  /\ mwrite[r] # NoWrite
  /\ mwrite' = [mwrite EXCEPT ![r] = NoWrite]
  /\ UNCHANGED <<stores, now, faults, pc, inputs, mtx, stx, swrite, event, booking, result>>

\* lines 82-91: Booking.create inside the MySQL transaction
bookTicket_create(r) ==
  /\ pc[r] = "create" /\ kind[r] = "bookTicket"
  /\ \/ /\ booking' = [booking EXCEPT ![r] =
                         [id |-> nextId, userId |-> body[r].userId,
                          eventId |-> body[r].eventId,
                          ticketCount |-> body[r].ticketCount, status |-> "confirmed"]]
        /\ swrite' = [swrite EXCEPT ![r] = [op |-> "insert", id |-> nextId]]
        /\ nextId' = nextId + 1
        /\ pc' = [pc EXCEPT ![r] = "commitTransaction"]
        /\ UNCHANGED faults
     \/ /\ CanFail
        /\ faults' = faults + 1
        /\ pc' = [pc EXCEPT ![r] = "catch"]
        /\ UNCHANGED <<booking, swrite, nextId>>
  /\ UNCHANGED <<events, bookings, syslog, now, inputs, mtx, mwrite, stx, event, result>>

(***************************************************************************)
(* Commit, abort and rollback of the two transactions                      *)
(***************************************************************************)
\* the documents after the pending write w is made durable
applyWrite(w) ==
  IF w # NoWrite /\ findById(w.eventId).exists
    THEN [events EXCEPT ![w.eventId].availableTickets = @ + w.inc]
    ELSE events

\* (variant: the cancellation writes the whole row and loses its ticketCount)
applyPendingOverwrite(w, r) ==
  IF w.op = "insert" THEN bookings @@ (w.id :> booking[r])
  ELSE IF w.op = "update"
    THEN [bookings EXCEPT ![w.id] = [booking[r] EXCEPT !.ticketCount = 0]]
  ELSE bookings

\* the rows after the pending insert or update w of request r is made durable
applyPending(w, r) ==
  IF w.op = "insert" THEN bookings @@ (w.id :> booking[r])
  ELSE IF w.op = "update" THEN [bookings EXCEPT ![w.id].status = booking[r].status]
  ELSE bookings

\* (variant: a failed commit of the MongoDB transaction goes unnoticed)
commitTransactionUnchecked(r, next) ==
  /\ mtx' = [mtx EXCEPT ![r] = "committed"]
  /\ mwrite' = [mwrite EXCEPT ![r] = NoWrite]
  /\ pc' = [pc EXCEPT ![r] = next]
  /\ \/ /\ events' = applyWrite(mwrite[r])
        /\ UNCHANGED faults
     \/ /\ CanFail
        /\ faults' = faults + 1
        /\ UNCHANGED events

\* await mongoSession.commitTransaction(): the driver marks the transaction
\* committed whether or not the server accepted the commit
commitTransaction(r, next) ==
  /\ mtx' = [mtx EXCEPT ![r] = "committed"]
  /\ mwrite' = [mwrite EXCEPT ![r] = NoWrite]
  /\ \/ /\ events' = applyWrite(mwrite[r])
        /\ pc' = [pc EXCEPT ![r] = next]
        /\ UNCHANGED faults
     \/ /\ CanFail
        /\ faults' = faults + 1
        /\ pc' = [pc EXCEPT ![r] = "catch"]
        /\ UNCHANGED events

\* await mysqlTransaction.commit(): the transaction is finished ('commit')
\* whether or not the server accepted the commit
commit(r, next) ==
  /\ stx' = [stx EXCEPT ![r] = "commit"]
  /\ swrite' = [swrite EXCEPT ![r] = NoPending]
  /\ \/ /\ bookings' = applyPending(swrite[r], r)
        /\ pc' = [pc EXCEPT ![r] = next]
        /\ UNCHANGED faults
     \/ /\ CanFail
        /\ faults' = faults + 1
        /\ pc' = [pc EXCEPT ![r] = "catch"]
        /\ UNCHANGED bookings

\* catch (error) { await mongoSession.abortTransaction();
\*                 await mysqlTransaction.rollback(); ...; throw error }
\* finally { mongoSession.endSession() }
\* abortTransaction throws once commitTransaction was called, and the
\* rollback is then never reached; rollback throws on a finished transaction.
\* Logger.error is reached only when neither of the two threw.
catchBlock(r, action) ==
  /\ pc' = [pc EXCEPT ![r] = "done"]
  /\ result' = [result EXCEPT ![r] = "error"]
  /\ mwrite' = [mwrite EXCEPT ![r] = NoWrite]
  /\ IF mtx[r] = "active"
       THEN /\ mtx' = [mtx EXCEPT ![r] = "aborted"]
            /\ IF stx[r] = "open"
                 THEN /\ stx' = [stx EXCEPT ![r] = "rollback"]
                      /\ swrite' = [swrite EXCEPT ![r] = NoPending]
                      /\ \E ok \in BOOLEAN :
                           /\ ok \/ CanFail
                           /\ faults' = faults + Failures(<<ok>>)
                           /\ syslog' = log(ok, "error", action, r)
                 ELSE UNCHANGED <<stx, swrite, syslog, faults>>
       ELSE UNCHANGED <<mtx, stx, swrite, syslog, faults>>

\* line 94
bookTicket_commitTransaction(r) ==
  /\ pc[r] = "commitTransaction" /\ kind[r] = "bookTicket"
  /\ commitTransaction(r, "commit")
  /\ UNCHANGED <<bookings, nextId, syslog, now, inputs, stx, swrite, event, booking, result>>

\* line 95
bookTicket_commit(r) ==
  /\ pc[r] = "commit" /\ kind[r] = "bookTicket"
  /\ commit(r, "findByPk")
  /\ UNCHANGED <<events, nextId, syslog, now, inputs, mtx, mwrite, event, booking, result>>

\* lines 98-128: log, Booking.findByPk, respond 201
bookTicket_findByPk(r) ==
  /\ pc[r] = "findByPk" /\ kind[r] = "bookTicket"
  /\ \E logged, found \in BOOLEAN :
       /\ faults + Failures(<<logged, found>>) <= MaxFaults
       /\ faults' = faults + Failures(<<logged, found>>)
       /\ syslog' = log(logged, "info", "Ticket booked successfully", r)
       /\ IF found
            THEN /\ result' = [result EXCEPT ![r] = "ok"]
                 /\ pc' = [pc EXCEPT ![r] = "done"]
            ELSE /\ pc' = [pc EXCEPT ![r] = "catch"]
                 /\ UNCHANGED result
  /\ UNCHANGED <<events, bookings, nextId, now, inputs, locals>>

\* lines 106-128: the body of the 201 response: the row Booking.findByPk
\* reads and the availableTickets of the document the update returned
response(r) == [booking |-> findOne(booking[r].id),
                availableTickets |-> event[r].availableTickets]

\* lines 129-144
bookTicket_catch(r) ==
  /\ pc[r] = "catch" /\ kind[r] = "bookTicket"
  /\ catchBlock(r, "Booking failed with error")
  /\ UNCHANGED <<events, bookings, nextId, now, inputs, event, booking>>

bookTicket(r) ==
  \/ bookTicket_begin(r)
  \/ bookTicket_findOneAndUpdate(r)
  \/ bookTicket_findById(r)
  \/ bookTicket_dateCheck(r)
  \/ bookTicket_restore(r)
  \/ bookTicket_create(r)
  \/ bookTicket_commitTransaction(r)
  \/ bookTicket_commit(r)
  \/ bookTicket_findByPk(r)
  \/ bookTicket_catch(r)

(***************************************************************************)
(* The clock                                                               *)
(***************************************************************************)
Tick ==
  /\ now < MaxNow
  /\ now' = now + 1
  /\ UNCHANGED <<stores, faults, pc, inputs, locals, result>>

(***************************************************************************)
(* cancelBooking                                                           *)
(***************************************************************************)
\* some other open MySQL transaction has updated the row and holds its lock
RowLocked(id, r) == \E q \in Req \ {r} : swrite[q].op = "update" /\ swrite[q].id = id

\* (variant: the status is not checked)
cancelPrecheckNoStatus(row, userId) ==
  IF row = NoRow THEN "booking_not_found"
  ELSE IF row.userId # userId /\ userId \notin Admins THEN "access_denied"
  ELSE "pass"

\* (variant: the owner is not checked)
cancelPrecheckNoOwner(row, userId) ==
  IF row = NoRow THEN "booking_not_found"
  ELSE IF row.status = "cancelled" THEN "already_cancelled"
  ELSE "pass"

\* (variant: one ticket is restored whatever the booking held)
restoreOne(row) == 1

\* line 275: $inc: {availableTickets: booking.ticketCount}
restoreCount(row) == row.ticketCount

\* lines 258-270: the three checks on the row that was read
cancelPrecheck(row, userId) ==
  IF row = NoRow THEN "booking_not_found"
  ELSE IF row.userId # userId /\ userId \notin Admins THEN "access_denied"
  ELSE IF row.status = "cancelled" THEN "already_cancelled"
  ELSE "pass"

\* lines 244-251: open both transactions, read the request
cancelBooking_begin(r) ==
  /\ Arrives(r)
  /\ \E id \in 1..nextId, u \in Users :
       /\ kind' = [kind EXCEPT ![r] = "cancelBooking"]
       /\ body' = [body EXCEPT ![r] = [NoBody EXCEPT !.bookingId = id, !.userId = u]]
       /\ atStart' = [atStart EXCEPT ![r] = Observe(findOne(id).eventId, id)]
  /\ pc' = [pc EXCEPT ![r] = "findOne"]
  /\ mtx' = [mtx EXCEPT ![r] = "active"]
  /\ stx' = [stx EXCEPT ![r] = "open"]
  /\ UNCHANGED <<stores, now, faults, mwrite, swrite, event, booking, result>>

\* lines 253-270: Booking.findOne and the checks
cancelBooking_findOne(r) ==
  /\ pc[r] = "findOne" /\ kind[r] = "cancelBooking"
  /\ LET row == findOne(body[r].bookingId)
         check == cancelPrecheck(row, body[r].userId)
     IN /\ booking' = [booking EXCEPT ![r] = row]
        /\ IF check = "pass"
             THEN /\ pc' = [pc EXCEPT ![r] = "findByIdAndUpdate"]
                  /\ UNCHANGED <<result, mtx, mwrite>>
             ELSE /\ pc' = [pc EXCEPT ![r] = "done"]
                  /\ result' = [result EXCEPT ![r] = check]
                  /\ endSession(r)
  /\ UNCHANGED <<stores, now, faults, inputs, stx, swrite, event>>

\* (variant: the update's null result is not examined, lines 279-281 left out)
cancelBooking_findByIdAndUpdateUnchecked(r) ==
  /\ pc[r] = "findByIdAndUpdate" /\ kind[r] = "cancelBooking"
  /\ LET e == booking[r].eventId
         doc == findById(e)
     IN IF doc.exists /\ Locked(e)
          THEN /\ pc' = [pc EXCEPT ![r] = "catch"]
               /\ UNCHANGED <<result, mtx, mwrite, event>>
          ELSE /\ mwrite' = [mwrite EXCEPT ![r] =
                               IF doc.exists
                                 THEN [eventId |-> e, inc |-> restoreCount(booking[r])]
                                 ELSE NoWrite]
               /\ event' = [event EXCEPT ![r] =
                              IF doc.exists
                                THEN [doc EXCEPT !.availableTickets =
                                                   @ + restoreCount(booking[r])]
                                ELSE NoDoc]
               /\ pc' = [pc EXCEPT ![r] = "save"]
               /\ UNCHANGED <<result, mtx>>
  /\ UNCHANGED <<stores, now, faults, inputs, stx, swrite, booking>>

\* lines 273-281: Event.findByIdAndUpdate with the session
cancelBooking_findByIdAndUpdate(r) ==
  /\ pc[r] = "findByIdAndUpdate" /\ kind[r] = "cancelBooking"
  /\ LET e == booking[r].eventId
         doc == findById(e)
     IN IF ~doc.exists
          THEN /\ pc' = [pc EXCEPT ![r] = "done"]
               /\ result' = [result EXCEPT ![r] = "associated_event_not_found"]
               /\ endSession(r)
               /\ UNCHANGED event
          ELSE IF Locked(e)
          THEN /\ pc' = [pc EXCEPT ![r] = "catch"]
               /\ UNCHANGED <<result, mtx, mwrite, event>>
          ELSE /\ mwrite' = [mwrite EXCEPT ![r] =
                               [eventId |-> e, inc |-> restoreCount(booking[r])]]
               /\ event' = [event EXCEPT ![r] =
                              [doc EXCEPT !.availableTickets = @ + restoreCount(booking[r])]]
               /\ pc' = [pc EXCEPT ![r] = "save"]
               /\ UNCHANGED <<result, mtx>>
  /\ UNCHANGED <<stores, now, faults, inputs, stx, swrite, booking>>

\* lines 284-285: booking.status = 'cancelled'; booking.save({transaction})
\* The UPDATE waits for the row lock of another open transaction, and
\* fails with a lock wait timeout if that transaction does not end.
cancelBooking_save(r) ==
  /\ pc[r] = "save" /\ kind[r] = "cancelBooking"
  /\ \/ /\ ~RowLocked(booking[r].id, r)
        /\ booking' = [booking EXCEPT ![r].status = "cancelled"]
        /\ swrite' = [swrite EXCEPT ![r] = [op |-> "update", id |-> booking[r].id]]
        /\ pc' = [pc EXCEPT ![r] = "commitTransaction"]
        /\ UNCHANGED faults
     \/ /\ RowLocked(booking[r].id, r)
        /\ pc' = [pc EXCEPT ![r] = "catch"]
        /\ UNCHANGED <<booking, swrite, faults>>
     \/ /\ CanFail
        /\ faults' = faults + 1
        /\ pc' = [pc EXCEPT ![r] = "catch"]
        /\ UNCHANGED <<booking, swrite>>
  /\ UNCHANGED <<stores, now, inputs, mtx, mwrite, stx, event, result>>

\* line 287
cancelBooking_commitTransaction(r) ==
  /\ pc[r] = "commitTransaction" /\ kind[r] = "cancelBooking"
  /\ commitTransaction(r, "commit")
  /\ UNCHANGED <<bookings, nextId, syslog, now, inputs, stx, swrite, event, booking, result>>

\* line 288
cancelBooking_commit(r) ==
  /\ pc[r] = "commit" /\ kind[r] = "cancelBooking"
  /\ commit(r, "respond")
  /\ UNCHANGED <<events, nextId, syslog, now, inputs, mtx, mwrite, event, booking, result>>

\* lines 290-302: log (the logger swallows its own errors), respond 200
cancelBooking_respond(r) ==
  /\ pc[r] = "respond" /\ kind[r] = "cancelBooking"
  /\ \E ok \in BOOLEAN :
       /\ ok \/ CanFail
       /\ faults' = faults + Failures(<<ok>>)
       /\ syslog' = log(ok, "info", "Booking cancelled", r)
  /\ result' = [result EXCEPT ![r] = "ok"]
  /\ pc' = [pc EXCEPT ![r] = "done"]
  /\ UNCHANGED <<events, bookings, nextId, now, inputs, locals>>

\* lines 303-315
cancelBooking_catch(r) ==
  /\ pc[r] = "catch" /\ kind[r] = "cancelBooking"
  /\ catchBlock(r, "Booking cancellation failed")
  /\ UNCHANGED <<events, bookings, nextId, now, inputs, event, booking>>

cancelBooking(r) ==
  \/ cancelBooking_begin(r)
  \/ cancelBooking_findOne(r)
  \/ cancelBooking_findByIdAndUpdate(r)
  \/ cancelBooking_save(r)
  \/ cancelBooking_commitTransaction(r)
  \/ cancelBooking_commit(r)
  \/ cancelBooking_respond(r)
  \/ cancelBooking_catch(r)

(***************************************************************************)
(* updateEvent                                                             *)
(***************************************************************************)
\* lines 137-156 on the loaded document: "rejected" or the edited document
editEvent(doc, b) ==
  LET ticketsSold == doc.totalTickets - doc.availableTickets
      d1 == IF b.date # Undefined THEN [doc EXCEPT !.date = b.date] ELSE doc
  IN IF b.totalTickets = Undefined THEN d1
     ELSE IF b.totalTickets < ticketsSold THEN NoDoc
     ELSE [d1 EXCEPT !.availableTickets = b.totalTickets - ticketsSold,
                     !.totalTickets = b.totalTickets]

\* validation and pre('save') hooks of event.save(): the date validator runs
\* only on a modified date; availableTickets > totalTickets is refused
saveValid(old, new) ==
  /\ (new.date # old.date => new.date > now)
  /\ new.totalTickets >= MinTotalTickets
  /\ new.availableTickets >= 0
  /\ new.availableTickets <= new.totalTickets

\* (variant: save() writes the whole document as it was loaded and edited)
setWhole(cur, old, new) == new

\* save() sends $set for the modified paths only
setModified(cur, old, new) ==
  [cur EXCEPT !.date = IF new.date # old.date THEN new.date ELSE @,
              !.totalTickets = IF new.totalTickets # old.totalTickets
                                 THEN new.totalTickets ELSE @,
              !.availableTickets = IF new.availableTickets # old.availableTickets
                                     THEN new.availableTickets ELSE @]

\* lines 123-135: validate the id, Event.findById
updateEvent_begin(r) ==
  /\ Arrives(r)
  /\ \E e \in EventIds \cup {InvalidId}, t \in Totals \cup {Undefined},
        d \in Dates \cup {Undefined} :
       /\ kind' = [kind EXCEPT ![r] = "updateEvent"]
       /\ body' = [body EXCEPT ![r] = [NoBody EXCEPT !.eventId = e, !.totalTickets = t,
                                                      !.date = d]]
       /\ atStart' = [atStart EXCEPT ![r] = Observe(e, Absent)]
       /\ event' = [event EXCEPT ![r] = findById(e)]
       /\ IF e = InvalidId \/ ~findById(e).exists
            THEN /\ pc' = [pc EXCEPT ![r] = "done"]
                 /\ result' = [result EXCEPT ![r] =
                                 IF e = InvalidId THEN "invalid_id" ELSE "event_not_found"]
            ELSE /\ pc' = [pc EXCEPT ![r] = "save"]
                 /\ UNCHANGED result
  /\ UNCHANGED <<stores, now, faults, mtx, mwrite, stx, swrite, booking>>

\* lines 137-172: edit the loaded document, event.save(), respond
updateEvent_save(r) ==
  /\ pc[r] = "save" /\ kind[r] = "updateEvent"
  /\ LET e == body[r].eventId
         old == event[r]
         new == editEvent(old, body[r])
     IN IF new = NoDoc
          THEN /\ result' = [result EXCEPT ![r] = "rejected"]
               /\ UNCHANGED <<events, event, syslog, faults>>
          ELSE IF ~saveValid(old, new)
          THEN /\ result' = [result EXCEPT ![r] = "error"]
               /\ UNCHANGED <<events, event, syslog, faults>>
          ELSE IF new # old /\ ~findById(e).exists
          THEN \* the document is gone: save() finds nothing to update and throws
               /\ result' = [result EXCEPT ![r] = "error"]
               /\ UNCHANGED <<events, event, syslog, faults>>
          ELSE /\ IF new = old
                    THEN UNCHANGED <<events, event>>
                    ELSE /\ ~Locked(e)
                         /\ events' = [events EXCEPT ![e] = setModified(@, old, new)]
                         /\ event' = [event EXCEPT ![r] = new]
               /\ \E ok \in BOOLEAN :
                    /\ ok \/ CanFail
                    /\ faults' = faults + Failures(<<ok>>)
                    /\ syslog' = log(ok, "info", "Event updated", r)
               /\ result' = [result EXCEPT ![r] = "ok"]
  /\ pc' = [pc EXCEPT ![r] = "done"]
  /\ UNCHANGED <<bookings, nextId, now, inputs, mtx, mwrite, stx, swrite, booking>>

updateEvent(r) ==
  \/ updateEvent_begin(r)
  \/ updateEvent_save(r)

(***************************************************************************)
(* deleteEvent                                                             *)
(***************************************************************************)
\* line 192: const ticketsSold = event.totalTickets - event.availableTickets
ticketsSold(doc) == doc.totalTickets - doc.availableTickets


\* line 193: if (ticketsSold > 0)
deleteRefused(doc) == ticketsSold(doc) > 0

\* lines 177-198: validate the id, Event.findById, refuse when tickets were sold
deleteEvent_begin(r) ==
  /\ Arrives(r)
  /\ \E e \in EventIds \cup {InvalidId} :
       /\ kind' = [kind EXCEPT ![r] = "deleteEvent"]
       /\ body' = [body EXCEPT ![r] = [NoBody EXCEPT !.eventId = e]]
       /\ atStart' = [atStart EXCEPT ![r] = Observe(e, Absent)]
       /\ event' = [event EXCEPT ![r] = findById(e)]
       /\ IF e = InvalidId \/ ~findById(e).exists \/ deleteRefused(findById(e))
            THEN /\ pc' = [pc EXCEPT ![r] = "done"]
                 /\ result' = [result EXCEPT ![r] =
                                 IF e = InvalidId THEN "invalid_id"
                                 ELSE IF ~findById(e).exists THEN "event_not_found"
                                 ELSE "tickets_sold"]
            ELSE /\ pc' = [pc EXCEPT ![r] = "findByIdAndDelete"]
                 /\ UNCHANGED result
  /\ UNCHANGED <<stores, now, faults, mtx, mwrite, stx, swrite, booking>>

\* lines 200-213: Event.findByIdAndDelete, log, respond.  The delete is
\* outside any transaction, so it waits while a transaction holds the
\* document; deleting a document that is already gone is not an error.
deleteEvent_findByIdAndDelete(r) ==
  /\ pc[r] = "findByIdAndDelete" /\ kind[r] = "deleteEvent"
  /\ ~Locked(body[r].eventId)
  /\ events' = [events EXCEPT ![body[r].eventId] = NoDoc]
  /\ \E ok \in BOOLEAN :
       /\ ok \/ CanFail
       /\ faults' = faults + Failures(<<ok>>)
       /\ syslog' = log(ok, "warning", "Event deleted", r)
  /\ result' = [result EXCEPT ![r] = "ok"]
  /\ pc' = [pc EXCEPT ![r] = "done"]
  /\ UNCHANGED <<bookings, nextId, now, inputs, locals>>

deleteEvent(r) ==
  \/ deleteEvent_begin(r)
  \/ deleteEvent_findByIdAndDelete(r)

(***************************************************************************)
(* The system: any number of requests in flight                            *)
(***************************************************************************)
Next ==
  \/ \E r \in Req : bookTicket(r)
  \/ \E r \in Req : cancelBooking(r)
  \/ \E r \in Req : updateEvent(r)
  \/ \E r \in Req : deleteEvent(r)
  \/ \E r \in Req : transactionExpires(r)
  \/ Tick

Spec == Init /\ [][Next]_vars

(***************************************************************************)
(* The system serving one request at a time: a request is received only    *)
(* when no other request is in flight                                      *)
(***************************************************************************)
Quiescent == \A r \in Req : pc[r] \in {"idle", "done"}

NextSeq ==
  \/ \E r \in Req : bookTicket(r) /\ (pc[r] = "idle" => Quiescent)
  \/ \E r \in Req : cancelBooking(r) /\ (pc[r] = "idle" => Quiescent)
  \/ \E r \in Req : updateEvent(r) /\ (pc[r] = "idle" => Quiescent)
  \/ \E r \in Req : deleteEvent(r) /\ (pc[r] = "idle" => Quiescent)
  \/ \E r \in Req : transactionExpires(r)
  \/ Tick

SpecSeq == Init /\ [][NextSeq]_vars

(***************************************************************************)
(* Concurrent bookTicket calls only: no cancellation, no event edit        *)
(***************************************************************************)
NextBook ==
  \/ \E r \in Req : bookTicket(r)
  \/ \E r \in Req : transactionExpires(r)
  \/ Tick

SpecBook == Init /\ [][NextBook]_vars

(***************************************************************************)
(* Scenario of section 8: an event with totalTickets = availableTickets =  *)
(* 5, two requests for 3 tickets each received at the same time            *)
(***************************************************************************)
InitC10 ==
  /\ now = 1
  /\ events = [e \in EventIds |->
                 [exists |-> TRUE, totalTickets |-> 5, availableTickets |-> 5,
                  date |-> MaxNow]]
  /\ bookings = <<>>
  /\ nextId = 1
  /\ syslog = {}
  /\ faults = 0
  /\ \E u \in [{1, 2} -> Users] :
       body = [r \in Req |-> IF r \in {1, 2}
                               THEN [NoBody EXCEPT !.eventId = 1, !.ticketCount = 3,
                                                   !.userId = u[r], !.requestId = 1]
                               ELSE NoBody]
  /\ pc = [r \in Req |-> IF r \in {1, 2} THEN "findOneAndUpdate" ELSE "idle"]
  /\ kind = [r \in Req |-> IF r \in {1, 2} THEN "bookTicket" ELSE "none"]
  /\ atStart = [r \in Req |-> IF r \in {1, 2}
                                THEN [availableTickets |-> 5, past |-> FALSE, status |-> "none"]
                                ELSE NoObs]
  /\ mtx = [r \in Req |-> IF r \in {1, 2} THEN "active" ELSE "none"]
  /\ stx = [r \in Req |-> IF r \in {1, 2} THEN "open" ELSE "none"]
  /\ mwrite = [r \in Req |-> NoWrite]
  /\ swrite = [r \in Req |-> NoPending]
  /\ event = [r \in Req |-> NoDoc]
  /\ booking = [r \in Req |-> NoRow]
  /\ result = [r \in Req |-> "none"]

NextC10 ==
  \/ \E r \in Req : bookTicket_findOneAndUpdate(r)
  \/ \E r \in Req : bookTicket_findById(r)
  \/ \E r \in Req : bookTicket_dateCheck(r)
  \/ \E r \in Req : bookTicket_create(r)
  \/ \E r \in Req : bookTicket_commitTransaction(r)
  \/ \E r \in Req : bookTicket_commit(r)
  \/ \E r \in Req : bookTicket_findByPk(r)
  \/ \E r \in Req : bookTicket_catch(r)
  \/ Tick

SpecC10 == InitC10 /\ [][NextC10]_vars

(***************************************************************************)
(* Properties                                                              *)
(***************************************************************************)
\* tickets held by the confirmed bookings of event e
Confirmed(e) == {id \in DOMAIN bookings :
                   bookings[id].eventId = e /\ bookings[id].status = "confirmed"}
Booked(e) == Sum(Confirmed(e), [id \in DOMAIN bookings |-> bookings[id].ticketCount])

\* the row inserted by request r has been committed
Committed(r) == booking[r].id \in DOMAIN bookings

\* no request was received after request r
Latest(r) == \A q \in Req : q > r => pc[q] = "idle"

Finished(r, k) == kind[r] = k /\ pc[r] = "done"

\* C1: No overbooking.  With bookTicket calls only (SpecBook: no
\* cancellation, no event edit) an event starts with availableTickets =
\* totalTickets - (tickets of its confirmed bookings), so the tickets of the
\* calls that succeed stay within that availableTickets exactly when the
\* confirmed bookings never hold more than totalTickets; every call that
\* succeeds has its own committed confirmed row.
NoOverbooking ==
  /\ \A e \in EventIds : Booked(e) <= events[e].totalTickets
  /\ \A r \in Req : Finished(r, "bookTicket") /\ result[r] = "ok"
        => Committed(r) /\ bookings[booking[r].id] = booking[r]
  /\ \A r, q \in Req : r # q /\ Committed(r) /\ Committed(q) => booking[r].id # booking[q].id

\* C1 witness: one call succeeded, a concurrent call on the same event was
\* turned away, and the event is sold out
NoOverbookingWitness ==
  \E r, q \in Req :
    /\ r # q /\ Finished(r, "bookTicket") /\ Finished(q, "bookTicket")
    /\ body[r].eventId = body[q].eventId
    /\ result[r] = "ok" /\ result[q] \in {"insufficient", "error"}
    /\ atStart[q].availableTickets >= body[q].ticketCount
    /\ Booked(body[r].eventId) = events[body[r].eventId].totalTickets

\* C2: Conservation at quiescence: when no request is in flight, every
\* event has availableTickets + tickets of its confirmed bookings = totalTickets.
Conservation ==
  Quiescent => \A e \in EventIds :
                 events[e].availableTickets + Booked(e) = events[e].totalTickets

\* C3: availableTickets is never negative: not in a committed document, not
\* in the document a transaction has written and not yet committed, not in
\* the document a handler holds.
NonNegative ==
  /\ \A e \in EventIds : events[e].availableTickets >= 0
  /\ \A r \in Req : mwrite[r] # NoWrite =>
        findById(mwrite[r].eventId).availableTickets + mwrite[r].inc >= 0
  /\ \A r \in Req : event[r].availableTickets >= 0

\* C3 witness: inside the reservation window (decrement committed, booking
\* row not yet committed) of a request that took the last tickets
NonNegativeWitness ==
  \E r \in Req :
    /\ kind[r] = "bookTicket" /\ pc[r] = "commit"
    /\ events[body[r].eventId].availableTickets = 0
    /\ events[body[r].eventId].availableTickets + Booked(body[r].eventId)
         # events[body[r].eventId].totalTickets

\* C4: availableTickets <= totalTickets for every event in every state.
WithinTotal ==
  \A e \in EventIds : events[e].availableTickets <= events[e].totalTickets

\* the request reserved capacity and then failed in Booking.create,
\* commitTransaction or commit
LedgerFailed(r) ==
  /\ Finished(r, "bookTicket") /\ result[r] = "error"
  /\ event[r].exists
  /\ ~(stx[r] = "commit" /\ Committed(r))

\* C5: Compensation: when the ledger step of a bookTicket request failed
\* after its reservation, then once the request has finished (and nothing
\* else ran) availableTickets is what it was before the request and the
\* request has no booking row.
Compensation ==
  \A r \in Req : LedgerFailed(r) /\ Latest(r) =>
      /\ events[body[r].eventId].availableTickets = atStart[r].availableTickets
      /\ ~Committed(r)

\* C6: Expired event: a bookTicket request on an event whose date is in the
\* past ends with the event-expired error, availableTickets as before the
\* request and no booking row.
ExpiredUntouched ==
  \A r \in Req :
    Finished(r, "bookTicket") /\ Latest(r) /\ atStart[r].past
      /\ body[r].eventId \in EventIds =>
        /\ result[r] = "past_event"
        /\ events[body[r].eventId].availableTickets = atStart[r].availableTickets
        /\ ~Committed(r)

\* C7: Idempotency: two finished bookTicket calls with the same requestId
\* (same user, event and count) leave at most one booking row between them.
Idempotent ==
  \A r, q \in Req :
    r # q /\ Finished(r, "bookTicket") /\ Finished(q, "bookTicket")
      /\ body[r] = body[q] => ~(Committed(r) /\ Committed(q))

\* a successful bookTicket r directly followed by a successful cancelBooking q
\* of the booking it made
BookedThenCancelled(r, q) ==
  /\ q = r + 1 /\ Latest(q)
  /\ Finished(r, "bookTicket") /\ result[r] = "ok"
  /\ Finished(q, "cancelBooking") /\ result[q] = "ok"
  /\ body[q].bookingId = booking[r].id

\* C8: Cancellation reversibility: after a successful booking and the
\* successful cancellation of that booking, availableTickets is what it was
\* before the booking and the booking is 'cancelled'.
Reversible ==
  \A r, q \in Req : BookedThenCancelled(r, q) =>
      /\ events[body[r].eventId].availableTickets = atStart[r].availableTickets
      /\ bookings[booking[r].id].status = "cancelled"

\* C8 witness: such a pair has run, for a booking of more than one ticket
ReversibleWitness ==
  \E r, q \in Req : BookedThenCancelled(r, q) /\ body[r].ticketCount > 1

\* request r asks, as the owner or an admin, to cancel a booking that was
\* already 'cancelled' when the request arrived
CancelsTwice(r) ==
  /\ kind[r] = "cancelBooking"
  /\ atStart[r].status = "cancelled"
  /\ (findOne(body[r].bookingId).userId = body[r].userId \/ body[r].userId \in Admins)

\* C9: Cancelling twice: no step of a cancelBooking request on an already
\* cancelled booking changes a booking row or an event, and the request ends
\* with the already-cancelled error.
CancelTwiceRejected ==
  [][\A r \in Req : CancelsTwice(r) /\ pc'[r] # pc[r] =>
        /\ events' = events
        /\ bookings' = bookings
        /\ (pc'[r] = "done" => result'[r] = "already_cancelled")]_vars

\* C9 witness: such a request has been answered
CancelTwiceWitness ==
  \E r \in Req : CancelsTwice(r) /\ pc[r] = "done" /\ result[r] = "already_cancelled"

\* C10: of the two concurrent requests for 3 tickets on the event with 5,
\* when both have finished (no store call failed) exactly one succeeded,
\* availableTickets is 2 and the other got the insufficient-tickets error
\* reporting 2.
OneOfTwoWins ==
  Finished(1, "bookTicket") /\ Finished(2, "bookTicket") /\ faults = 0 =>
    \E w \in {1, 2} :
      LET l == 3 - w
      IN /\ result[w] = "ok"
         /\ events[1].availableTickets = 2
         /\ result[l] = "insufficient"
         /\ event[l].availableTickets = 2

\* C11: Insufficient capacity is a fast-fail: a bookTicket request turned
\* away for lack of tickets has begun no MySQL transaction (none is open or
\* was ever opened for it), has written no booking row, and leaves
\* availableTickets as it was before the request.
FastFail ==
  \A r \in Req :
    Finished(r, "bookTicket") /\ Latest(r) /\ result[r] = "insufficient" =>
      /\ stx[r] = "none"
      /\ swrite[r] = NoPending /\ ~Committed(r)
      /\ events[body[r].eventId].availableTickets = atStart[r].availableTickets

\* C12: A user-visible failure of bookTicket implies nothing happened: a
\* request that ended with any error (the code has no CompensationFailure)
\* has no 'confirmed' booking row and availableTickets is what it was before
\* the request.
FailureMeansNothing ==
  \A r \in Req :
    Finished(r, "bookTicket") /\ Latest(r) /\ body[r].eventId \in EventIds
      /\ result[r] \notin {"ok", "compensation_failure"} =>
        /\ ~(Committed(r) /\ bookings[booking[r].id].status = "confirmed")
        /\ events[body[r].eventId].availableTickets = atStart[r].availableTickets

\* request r ended with its decrement committed, no booking row committed
\* and the capacity not restored
Discrepancy(r) ==
  /\ Finished(r, "bookTicket") /\ Latest(r) /\ body[r].eventId \in EventIds
  /\ ~Committed(r)
  /\ events[body[r].eventId].availableTickets
       = atStart[r].availableTickets - body[r].ticketCount

\* the log holds an error entry written for request r
Recorded(r) == \E l \in syslog : l.req = r /\ l.level \in {"error", "critical"}

\* C13: No silently lost discrepancy: whenever a bookTicket request ends
\* with capacity decremented, no booking row and the capacity not restored,
\* the log holds an entry for it and the caller got a CompensationFailure.
NoLostDiscrepancy ==
  \A r \in Req : Discrepancy(r) => Recorded(r) /\ result[r] = "compensation_failure"

\* the requester is the owner of the row or an admin
MayCancel(row, userId) == row.userId = userId \/ userId \in Admins

\* C14: cancelBooking answers not-found when the booking does not exist and
\* forbidden when the requester is neither its owner nor an admin, changing
\* no booking row and no event; and every step that turns a booking
\* 'cancelled' is the commit of a cancelBooking request made by the
\* booking's owner or by an admin.
CancelGuarded ==
  [][/\ \A r \in Req :
          kind[r] = "cancelBooking" /\ pc[r] = "findOne" /\ pc'[r] # pc[r] =>
            LET row == findOne(body[r].bookingId)
            IN /\ row = NoRow =>
                    /\ pc'[r] = "done" /\ result'[r] = "booking_not_found"
                    /\ events' = events /\ bookings' = bookings
               /\ row # NoRow /\ ~MayCancel(row, body[r].userId) =>
                    /\ pc'[r] = "done" /\ result'[r] = "access_denied"
                    /\ events' = events /\ bookings' = bookings
     /\ \A id \in DOMAIN bookings :
          bookings[id].status # "cancelled" /\ bookings'[id].status = "cancelled" =>
            \E r \in Req :
              /\ kind[r] = "cancelBooking" /\ body[r].bookingId = id
              /\ pc[r] = "commit" /\ pc'[r] # pc[r]
              /\ MayCancel(bookings[id], body[r].userId)
    ]_vars

\* C14 witness: a request by someone else was refused, and the owner's
\* request then cancelled the same booking
CancelGuardedWitness ==
  \E r, q \in Req :
    /\ Finished(r, "cancelBooking") /\ result[r] = "access_denied"
    /\ Finished(q, "cancelBooking") /\ result[q] = "ok"
    /\ body[r].bookingId = body[q].bookingId
    /\ bookings[body[q].bookingId].status = "cancelled"
    /\ events[bookings[body[q].bookingId].eventId].availableTickets
         = atStart[r].availableTickets + bookings[body[q].bookingId].ticketCount

\* cancelBooking request r passed its checks and its restore of the capacity
\* did not take effect: the $inc met a write conflict, or the commit of the
\* MongoDB transaction failed
RestoreFailed(r) ==
  /\ Finished(r, "cancelBooking")
  /\ result[r] \notin {"booking_not_found", "access_denied", "already_cancelled",
                       "associated_event_not_found"}
  /\ \/ event[r] = NoDoc
     \/ mtx[r] = "committed" /\ stx[r] = "open"

CancelledTogether(r, q) ==
  /\ faults = 0
  /\ r < q /\ Finished(r, "cancelBooking") /\ Finished(q, "cancelBooking")
  /\ body[r].bookingId = body[q].bookingId
  /\ atStart[r].status = "confirmed" /\ atStart[q].status = "confirmed"
  /\ \A p \in Req \ {r, q} : pc[p] = "idle"

\* C16: the transition confirmed -> cancelled is checked: of two
\* cancelBooking calls on the same confirmed booking, in any interleaving,
\* at most one succeeds, and availableTickets grows by the booking's
\* ticketCount at most once.
CancelOnce ==
  \A r, q \in Req : CancelledTogether(r, q) =>
      /\ ~(result[r] = "ok" /\ result[q] = "ok")
      /\ LET row == findOne(body[r].bookingId)
         IN events[row.eventId].availableTickets
              <= atStart[r].availableTickets + row.ticketCount

\* an updateEvent u that set totalTickets and one bookTicket or cancelBooking
\* r on the same event both succeeded, nothing else was received and no
\* store call failed
EditedTogether(u, r) ==
  /\ faults = 0
  /\ Finished(u, "updateEvent") /\ result[u] = "ok"
  /\ body[u].totalTickets # Undefined
  /\ Finished(r, "bookTicket") \/ Finished(r, "cancelBooking")
  /\ result[r] = "ok"
  /\ body[u].eventId = IF kind[r] = "bookTicket" THEN body[r].eventId
                       ELSE findOne(body[r].bookingId).eventId
  /\ \A p \in Req \ {u, r} : pc[p] = "idle"

\* C17: availableTickets is never read-modify-written outside the atomic
\* primitive: after an updateEvent that changes totalTickets and a
\* bookTicket or cancelBooking on the same event, in any interleaving,
\* availableTickets = totalTickets - (tickets of confirmed bookings).
NoLostUpdate ==
  \A u, r \in Req : EditedTogether(u, r) =>
      events[body[u].eventId].availableTickets
        = events[body[u].eventId].totalTickets - Booked(body[u].eventId)

\* C18: Ledger transactions are scoped: when a bookTicket or cancelBooking
\* handler has finished, the MySQL transaction it opened is committed (and
\* then the handler answered success) or rolled back.
Scoped ==
  \A r \in Req :
    pc[r] = "done" /\ kind[r] \in {"bookTicket", "cancelBooking"} /\ stx[r] # "none" =>
      \/ stx[r] = "commit" /\ result[r] = "ok"
      \/ stx[r] = "rollback"

\* C19: A booking is never created speculatively: a bookTicket request
\* reaches its MySQL commit only by the step that makes its decrement of
\* ticketCount durable, and a 'confirmed' row appears among the committed
\* rows only by the MySQL commit of such a request, as the row it created.
NotSpeculative ==
  [][/\ \A r \in Req :
          kind[r] = "bookTicket" /\ pc[r] # "commit" /\ pc'[r] = "commit" =>
            /\ mwrite[r] = [eventId |-> body[r].eventId, inc |-> 0 - body[r].ticketCount]
            /\ events'[body[r].eventId].availableTickets
                 = events[body[r].eventId].availableTickets - body[r].ticketCount
     /\ \A id \in DOMAIN bookings' :
          /\ bookings'[id].status = "confirmed"
          /\ id \notin DOMAIN bookings \/ bookings[id].status # "confirmed"
          => \E r \in Req :
               /\ kind[r] = "bookTicket" /\ pc[r] = "commit" /\ pc'[r] = "findByPk"
               /\ mtx[r] = "committed"
               /\ bookings'[id] = booking[r]
               /\ booking[r].eventId = body[r].eventId
               /\ booking[r].ticketCount = body[r].ticketCount
    ]_vars

\* C19 witness: a request has committed its decrement and then its row
NotSpeculativeWitness ==
  \E r \in Req :
    /\ Finished(r, "bookTicket") /\ result[r] = "ok" /\ Latest(r)
    /\ Committed(r) /\ bookings[booking[r].id].status = "confirmed"
    /\ events[body[r].eventId].availableTickets
         = atStart[r].availableTickets - body[r].ticketCount

\* the conditional decrement of bookTicket request r matched: its
\* reservation succeeded
Reserved(r) == kind[r] = "bookTicket" /\ event[r].exists /\ result[r] # "insufficient"

\* C20: Run to completion: a bookTicket request whose reservation succeeded
\* finishes either with its booking committed, or as a compensated failure:
\* no booking row and availableTickets back at its value before the request.
\* (A finished request stays finished, so a request that finishes in any
\* other way never reaches one of the two outcomes.)
RunsToCompletion ==
  \A r \in Req :
    Reserved(r) /\ Finished(r, "bookTicket") /\ Latest(r) =>
      \/ result[r] = "ok" /\ Committed(r)
      \/ /\ result[r] # "ok" /\ ~Committed(r)
         /\ events[body[r].eventId].availableTickets = atStart[r].availableTickets

\* C21: An ambiguous store outcome is never reported as a confirmed
\* negative.  The conditional update of a bookTicket request is rejected
\* only when no existing event with availableTickets >= ticketCount is
\* there; the insufficient-tickets answer is given only after such a
\* rejection and for an event that exists (and a deleted event never comes
\* back, so it existed with too few tickets when the update was rejected);
\* every other way out of the reservation (store failure, write conflict)
\* goes to the catch block and is answered as an error.
NoFalseNegative ==
  [][/\ \A r \in Req : kind[r] = "bookTicket" /\ pc'[r] # pc[r] =>
          LET doc == findById(body[r].eventId)
          IN /\ pc[r] = "findOneAndUpdate" /\ pc'[r] = "findById" =>
                  ~(doc.exists /\ doc.availableTickets >= body[r].ticketCount)
             /\ result'[r] = "insufficient" => pc[r] = "findById" /\ doc.exists
             /\ pc'[r] = "findById" => pc[r] = "findOneAndUpdate"
             /\ pc[r] = "findOneAndUpdate" /\ pc'[r] \notin {"findById", "dateCheck"} =>
                  pc'[r] = "catch"
             /\ pc[r] = "catch" => pc'[r] = "done" /\ result'[r] = "error"
     /\ \A e \in EventIds : events'[e].exists => events[e].exists
    ]_vars

\* C21 witness: one request was turned away for lack of tickets, another
\* failed during its reservation and was answered with an error
NoFalseNegativeWitness ==
  \E r, q \in Req :
    /\ Finished(r, "bookTicket") /\ result[r] = "insufficient"
    /\ event[r].availableTickets < body[r].ticketCount
    /\ Finished(q, "bookTicket") /\ result[q] = "error" /\ event[q] = NoDoc

\* C22: Booking rows are append-only apart from one transition: no step
\* removes a committed row or changes its eventId, userId or ticketCount,
\* and its status either stays or moves from 'confirmed' to 'cancelled'.
AppendOnly ==
  [][\A id \in DOMAIN bookings :
        /\ id \in DOMAIN bookings'
        /\ bookings'[id].id = bookings[id].id
        /\ bookings'[id].eventId = bookings[id].eventId
        /\ bookings'[id].userId = bookings[id].userId
        /\ bookings'[id].ticketCount = bookings[id].ticketCount
        /\ \/ bookings'[id].status = bookings[id].status
           \/ bookings[id].status = "confirmed" /\ bookings'[id].status = "cancelled"
    ]_vars

\* C22 witness: a request cancelled a confirmed booking, and the event the
\* booking was for has been deleted since
AppendOnlyWitness ==
  \E r, q \in Req :
    /\ Finished(r, "cancelBooking") /\ result[r] = "ok"
    /\ atStart[r].status = "confirmed"
    /\ findOne(body[r].bookingId).status = "cancelled"
    /\ Finished(q, "deleteEvent") /\ result[q] = "ok"
    /\ ~events[findOne(body[r].bookingId).eventId].exists

\* C23: Capacity edits never undercut tickets already sold: the save step
\* of an updateEvent request with a new totalTickets T (and no new date),
\* served alone, is rejected with the event unchanged when T is below the
\* tickets sold, and otherwise leaves totalTickets = T and availableTickets
\* = T - (tickets sold), with 0 <= availableTickets <= totalTickets.
CapacityEdit ==
  [][\A r \in Req :
        /\ kind[r] = "updateEvent" /\ pc[r] = "save" /\ pc'[r] = "done"
        /\ body[r].totalTickets # Undefined /\ body[r].date = Undefined
        => LET e == body[r].eventId
               T == body[r].totalTickets
               sold == events[e].totalTickets - events[e].availableTickets
           IN IF T < sold
                THEN result'[r] = "rejected" /\ events'[e] = events[e]
                ELSE /\ events'[e].totalTickets = T
                     /\ events'[e].availableTickets = T - sold
                     /\ 0 <= events'[e].availableTickets
                     /\ events'[e].availableTickets <= events'[e].totalTickets
    ]_vars

\* the restore of cancelBooking request r has been made durable
Restored(r) ==
  /\ kind[r] = "cancelBooking" /\ mtx[r] = "committed"
  /\ pc[r] = "commit" \/ stx[r] = "commit"

\* C24: Cancellation order: the status flip to 'cancelled' is committed
\* before the capacity restore is applied, so in no reachable state has a
\* cancelBooking request restored the capacity while the booking is still
\* committed as 'confirmed'.
FlipBeforeRestore ==
  \A r \in Req : Restored(r) => findOne(body[r].bookingId).status = "cancelled"

\* bookTicket request r and cancelBooking request q (of a booking made
\* earlier) were on the same event, the event was not in the past, nothing
\* else was received, no store call failed, and both have finished
RacedTogether(r, q) ==
  /\ faults = 0
  /\ Finished(r, "bookTicket") /\ Finished(q, "cancelBooking")
  /\ findOne(body[q].bookingId) # NoRow
  /\ body[q].bookingId # booking[r].id
  /\ findOne(body[q].bookingId).eventId = body[r].eventId
  /\ ~atStart[r].past /\ result[r] # "past_event"
  /\ \A p \in Req \ {r, q} : pc[p] = "idle"

\* C25: Booking and cancellation race safely on the same event: both
\* requests end with an answer they can get when served one after the
\* other, and the final availableTickets is the initial value, minus the
\* booking's ticketCount if it succeeded, plus the cancelled booking's
\* ticketCount if the cancellation succeeded.
RaceSafe ==
  \A r, q \in Req : RacedTogether(r, q) =>
      /\ result[r] \in {"ok", "insufficient"}
      /\ result[q] \in {"ok", "access_denied", "already_cancelled"}
      /\ events[body[r].eventId].availableTickets
           = atStart[Min(r, q)].availableTickets
               - (IF result[r] = "ok" THEN body[r].ticketCount ELSE 0)
               + (IF result[q] = "ok" THEN findOne(body[q].bookingId).ticketCount ELSE 0)

\* C26: On success bookTicket returns the created booking and a snapshot of
\* the new availability.  The document kept by the request's own update is
\* the value the update read minus ticketCount; no later step of the
\* request changes it; it is the availableTickets that the commit of the
\* decrement stores; and the success response carries it together with the
\* booking row the request created.
Snapshot ==
  [][\A r \in Req : kind[r] = "bookTicket" /\ pc'[r] # pc[r] =>
        LET e == body[r].eventId
        IN /\ pc[r] = "findOneAndUpdate" /\ pc'[r] = "dateCheck" =>
                event'[r].availableTickets
                  = findById(e).availableTickets - body[r].ticketCount
           /\ pc[r] \in {"dateCheck", "create", "commitTransaction", "commit", "findByPk"} =>
                event'[r] = event[r]
           /\ pc[r] = "commitTransaction" /\ pc'[r] = "commit" =>
                events'[e].availableTickets = event[r].availableTickets
           /\ result'[r] = "ok" =>
                /\ pc[r] = "findByPk"
                /\ response(r)'.availableTickets = event[r].availableTickets
                /\ response(r)'.booking.id = booking[r].id
                /\ response(r)'.booking.userId = body[r].userId
                /\ response(r)'.booking.eventId = body[r].eventId
                /\ response(r)'.booking.ticketCount = body[r].ticketCount
    ]_vars

\* C26 witness: a request succeeded while the event's availability has
\* since moved away from the snapshot it returned
SnapshotWitness ==
  \E r \in Req :
    /\ Finished(r, "bookTicket") /\ result[r] = "ok"
    /\ response(r).availableTickets
         = atStart[r].availableTickets - body[r].ticketCount
    /\ events[body[r].eventId].availableTickets # response(r).availableTickets

\* C27: The availability reported by the insufficient-tickets error is
\* smaller than the requested ticketCount (it is the availableTickets that
\* made the conditional update fail), whatever else runs at the same time.
ReportedBelowRequest ==
  \A r \in Req :
    Finished(r, "bookTicket") /\ result[r] = "insufficient" =>
      event[r].availableTickets < body[r].ticketCount

\* C28: An event with tickets sold is never deleted: deleteEvent answers
\* with the tickets-sold error whenever the event it read has totalTickets -
\* availableTickets > 0, and no committed 'confirmed' booking references an
\* event that has been deleted.
SoldNeverDeleted ==
  /\ \A r \in Req :
       Finished(r, "deleteEvent") /\ event[r].exists
         /\ event[r].totalTickets - event[r].availableTickets > 0 =>
           result[r] = "tickets_sold"
  /\ \A id \in DOMAIN bookings :
       bookings[id].status = "confirmed" => events[bookings[id].eventId].exists

\* C29: updateEvent with no totalTickets in the request leaves totalTickets
\* and availableTickets as they are in the store when it saves, whatever
\* was committed since it read the event.
EditKeepsCapacity ==
  [][\A r \in Req :
        /\ kind[r] = "updateEvent" /\ pc[r] = "save" /\ pc'[r] # pc[r]
        /\ body[r].totalTickets = Undefined
        => /\ events'[body[r].eventId].totalTickets = events[body[r].eventId].totalTickets
           /\ events'[body[r].eventId].availableTickets
                = events[body[r].eventId].availableTickets
    ]_vars

\* C29 witness: an updateEvent that only moved the date has saved after the
\* availability had changed under it
EditKeepsCapacityWitness ==
  \E r \in Req :
    /\ Finished(r, "updateEvent") /\ result[r] = "ok"
    /\ body[r].totalTickets = Undefined /\ body[r].date # Undefined
    /\ events[body[r].eventId].date = body[r].date
    /\ events[body[r].eventId].availableTickets # atStart[r].availableTickets
    /\ event[r].availableTickets = atStart[r].availableTickets

\* ---------------------------------------------------------------------
\* Cancellations of a booking whose event is gone: the store after a
\* deleteEvent that overtook the booking (the interleaving of C28), with
\* the booking row still in MySQL.
InitC30 ==
  /\ now = 1
  /\ syslog = {}
  /\ events = [e \in EventIds |-> NoDoc]
  /\ \E row \in InitRows \ {NoRow} : bookings = <<row>>
  /\ nextId = 2
  /\ InitRequests

NextC30 ==
  \/ \E r \in Req : cancelBooking_begin(r)
  \/ \E r \in Req : cancelBooking_findOne(r)
  \/ \E r \in Req : cancelBooking_findByIdAndUpdate(r)
  \/ Tick

SpecC30 == InitC30 /\ [][NextC30]_vars

\* C30: cancelBooking on a confirmed booking whose event no longer exists
\* answers 'Associated event not found', leaves the booking 'confirmed' and
\* changes no event's availableTickets.
OrphanCancelFails ==
  [][\A r \in Req :
        /\ kind[r] = "cancelBooking" /\ pc[r] = "findByIdAndUpdate" /\ pc'[r] # pc[r]
        /\ booking[r].status = "confirmed"
        /\ ~events[booking[r].eventId].exists
        => /\ pc'[r] = "done"
           /\ result'[r] = "associated_event_not_found"
           /\ bookings' = bookings
           /\ bookings[booking[r].id].status = "confirmed"
           /\ events' = events
           /\ mwrite'[r] = NoWrite
    ]_vars

\* C30 witness: the owner's cancellation of a confirmed booking on a
\* deleted event has been answered
OrphanCancelFailsWitness ==
  \E r \in Req :
    /\ Finished(r, "cancelBooking") /\ result[r] = "associated_event_not_found"
    /\ booking[r].status = "confirmed" /\ booking[r].userId = body[r].userId
    /\ bookings[booking[r].id].status = "confirmed"
    /\ ~events[booking[r].eventId].exists

====
